---- MODULE Spec2Model ----
(***************************************************************************)
(* A model of contrib/devtools/previous-release.py: the driver (main), the *)
(* host detector (check_host), the binary fetcher (download_binary) and    *)
(* the source builder (build_release).                                     *)
(*                                                                         *)
(* Strings that the script inspects (host triples, tags) are sequences of  *)
(* one-character strings.  The literal pieces of the script's format       *)
(* strings ('bin/bitcoin-core-', '/test.', ...) are single elements of     *)
(* such a sequence: the script never looks inside them.                    *)
(*                                                                         *)
(* The files and directories under the target directory, the working       *)
(* directory and the external commands' results are the state.  Every      *)
(* external command is a nondeterministic choice of its exit status (and   *)
(* output).  An uncaught Python exception ends main with the result        *)
(* "raised" after the with-blocks' finally clauses ran.                    *)
(***************************************************************************)
EXTENDS Integers, Sequences, FiniteSets, TLC

\* ------------------------------------------------------------------ bounds

\* longest tag list on the command line
MaxTags == 2
\* most lines of a downloaded SHA256SUMS.asc
MaxLines == 3
\* most characters after the leading 'v' of a tag (path construction)
MaxTagLen == 4
\* most runs of the script over the same target directory
MaxRuns == 2

\* ----------------------------------------------------------------- strings

Range(s) == {s[i] : i \in 1..Len(s)}

Digits == {"0", "1", "2", "3", "4", "5", "6", "7", "8", "9"}

\* s[from..] (Python's s[from-1:])
Tail2(s, from) == SubSeq(s, from, Len(s))

\* fnmatch.fnmatch(name, pat) for patterns made of literal characters and '*'
RECURSIVE fnmatch(_, _)
fnmatch(name, pat) ==
    IF pat = <<>> THEN name = <<>>
    ELSE IF Head(pat) = "*"
         THEN \E k \in 0..Len(name) : fnmatch(Tail2(name, k + 1), Tail(pat))
         ELSE /\ name # <<>>
              /\ Head(name) = Head(pat)
              /\ fnmatch(Tail(name), Tail(pat))

\* 'x86_64-*-linux*'
PatLinux == <<"x", "8", "6", "_", "6", "4", "-", "*", "-", "l", "i", "n", "u", "x", "*">>
\* 'x86_64-apple-darwin*'
PatDarwin == <<"x", "8", "6", "_", "6", "4", "-", "a", "p", "p", "l", "e", "-",
               "d", "a", "r", "w", "i", "n", "*">>

\* the dict of check_host, in insertion order
platforms == << <<PatLinux, "x86_64-linux-gnu">>, <<PatDarwin, "osx64">> >>

\* host triples
X86 == <<"x", "8", "6", "_", "6", "4", "-">>
HostLinux == X86 \o <<"u", "n", "k", "n", "o", "w", "n", "-", "l", "i", "n", "u", "x", "-", "g", "n", "u">>
HostDarwin == X86 \o <<"a", "p", "p", "l", "e", "-", "d", "a", "r", "w", "i", "n", "2", "0">>
HostMingw == X86 \o <<"w", "6", "4", "-", "m", "i", "n", "g", "w", "3", "2">>
HostArm == <<"a", "a", "r", "c", "h", "6", "4", "-", "u", "n", "k", "n", "o", "w", "n", "-",
             "l", "i", "n", "u", "x", "-", "g", "n", "u">>
HostBoth == X86 \o <<"a", "p", "p", "l", "e", "-", "d", "a", "r", "w", "i", "n", "-",
                     "l", "i", "n", "u", "x">>

\* values of the HOST environment variable ("unset": not in the environment)
EnvHosts == {"unset", HostDarwin, HostMingw}
\* what ./depends/config.guess prints (a line, with its newline)
GuessOutputs == {h \o <<"\n">> : h \in {HostLinux, HostArm, HostBoth}}

\* exit statuses of an external command
ExitCodes == {0, 2}


\* the executables make leaves in src/ (src/qt/ for the GUI)
CoreExes == {"bitcoind", "bitcoin-cli", "bitcoin-tx"}
GuiExe == "bitcoin-qt"

\* the token main appends to CONFIG_FLAGS for --functional-tests
NoGuiFlags == " --without-gui --disable-tests --disable-bench"

\* ------------------------------------------------------- pure computations

\* check_host's loop over platforms.items(): every pattern is tried, a later
\* match overwrites an earlier one
RECURSIVE PlatformLoop(_, _, _)
PlatformLoop(host, i, platform) ==
    IF i > Len(platforms) THEN platform
    ELSE PlatformLoop(host, i + 1,
                      IF fnmatch(host, platforms[i][1]) THEN platforms[i][2] ELSE platform)

\* PlatformOf with args.platform preset to the Linux tag instead of ''
PlatformOf_defaultLinux(host) == PlatformLoop(host, 1, "x86_64-linux-gnu")

PlatformOf(host) == PlatformLoop(host, 1, "")

\* RcSuffixAt for the pattern rc[0-9]$: one digit only
RcSuffixAt_oneDigit(tag, j) ==
    /\ j + 2 = Len(tag)
    /\ tag[j] = "r"
    /\ tag[j + 1] = "c"
    /\ tag[j + 2] \in Digits

\* rc[0-9]+$ matches tag[j..]
RcSuffixAt(tag, j) ==
    /\ j + 2 <= Len(tag)
    /\ tag[j] = "r"
    /\ tag[j + 1] = "c"
    /\ \A k \in (j + 2)..Len(tag) : tag[k] \in Digits

\* re.compile('v(.*)(rc[0-9]+)$').search(tag): the leftmost 'v' from which the
\* pattern matches, group 1 as long as possible
ReSearchRc(tag) ==
    LET starts == {i \in 1..Len(tag) :
                      /\ tag[i] = "v"
                      /\ \E j \in (i + 1)..Len(tag) : RcSuffixAt(tag, j)}
    IN  IF starts = {} THEN [found |-> FALSE, g1 |-> <<>>, g2 |-> <<>>]
        ELSE LET i == CHOOSE a \in starts : \A b \in starts : a <= b
                 j == CHOOSE a \in (i + 1)..Len(tag) :
                         /\ RcSuffixAt(tag, a)
                         /\ \A b \in (i + 1)..Len(tag) : RcSuffixAt(tag, b) => b <= a
             IN  [found |-> TRUE, g1 |-> SubSeq(tag, i + 1, j - 1), g2 |-> Tail2(tag, j)]

\* lines 41-45
BinPath(tag) ==
    LET match == ReSearchRc(tag)
    IN  IF match.found
        THEN <<"bin/bitcoin-core-">> \o match.g1 \o <<"/test.">> \o match.g2
        ELSE <<"bin/bitcoin-core-">> \o Tail(tag)

\* lines 46-47
TarballName(tag, platform) == <<"bitcoin-">> \o Tail(tag) \o <<"-", platform, ".tar.gz">>
\* line 48
Sha256SumsName(tag) == <<"SHA256SUMS-">> \o Tail(tag) \o <<".asc">>
\* lines 49-50
TarballUrl(tag, platform) ==
    <<"https://bitcoincore.org/">> \o BinPath(tag) \o <<"/">> \o TarballName(tag, platform)
\* line 51
Sha256SumsUrl(tag) ==
    <<"https://bitcoincore.org/">> \o BinPath(tag) \o <<"/SHA256SUMS.asc">>

\* hashlib.sha256(content).hexdigest(): one digest per content
Sha256(content) ==
    CASE content = "release-tarball" -> "digest-release-tarball"
      [] content = "x" -> "digest-x"
      [] OTHER -> "digest-y"

\* the content curl -O stores for a release tarball
TarballContent == "release-tarball"

\* manifest lines: the one naming the tarball's digest, and two others
LineMatch == <<Sha256(TarballContent), "  bitcoin.tar.gz\n">>
LineX == <<Sha256("x"), "  x.tar.gz\n">>
LineY == <<Sha256("y"), "  y.tar.gz\n">>
Lines == {LineMatch, LineX, LineY}

\* re.search(tarballHash, line): the digest (hex digits only) occurs in the line
ReSearch(tarballHash, line) == tarballHash \in Range(line)

\* lines 80-88: "accept" (break), "reject" (Hash does not match), or the
\* IndexError of lst[len(lst)-1] on an empty list
RECURSIVE ScanLoop(_, _, _, _)
ScanLoop(lst, i, lastline, tarballHash) ==
    IF i > Len(lst) THEN "accept"
    ELSE IF ReSearch(tarballHash, lst[i]) THEN "accept"
    ELSE IF lastline = lst[i] THEN "reject"
    ELSE ScanLoop(lst, i + 1, lastline, tarballHash)

VerifyChecksum(lst, tarballHash) ==
    IF lst = <<>> THEN "IndexError"
    ELSE ScanLoop(lst, 1, lst[Len(lst)], tarballHash)

\* pushd_exit restoring only what the innermost block saved
pushd_exit_innermost(cur, stack, n) ==
    IF n = 0 THEN cur ELSE stack[Len(stack)]

\* leaving the n innermost with pushd(...) blocks (by falling off the end, by
\* return or by an exception: the finally clause runs in each): the working
\* directory becomes the one the outermost of them saved
pushd_exit(cur, stack, n) ==
    IF n = 0 THEN cur ELSE stack[Len(stack) - n + 1]


\* ------------------------------------------------------------------- state

VARIABLES
    args,          \* the parsed options, plus host, platform, config_flags
    extras,        \* the tags of the command line
    envHOST,       \* the HOST environment variable
    target_dir,    \* whether args.target_dir exists
    dirs,          \* per tag: the tag directory under the target directory
    files,         \* the regular files of the target directory: name -> content
    cwd,           \* the working directory
    dirStack,      \* previous_dir of every with pushd(...) block entered
    pc,            \* the statement main is at
    idx,           \* the position in extras of the tag being processed
    calls,         \* the external commands started so far, in order
    rets,          \* per processed tag, what its operation returned
    mainRet,       \* what main returned
    pre,           \* dirs, files, calls when the current tag's operation began
    bin_path, tarball, sha256Sums, tarballUrl, sha256SumsUrl, tarballHash,
                   \* locals of download_binary
    host, config_flags,
                   \* locals of build_release
    run            \* how many times the script has been started

dlVars == <<bin_path, tarball, sha256Sums, tarballUrl, sha256SumsUrl, tarballHash>>
brVars == <<host, config_flags>>
fsVars == <<target_dir, dirs, files>>
vars == <<args, extras, envHOST, target_dir, dirs, files, cwd, dirStack, pc, idx,
          calls, rets, mainRet, pre, dlVars, brVars, run>>

\* directories
StartDir == <<>>
TargetDir == <<"releases">>

\* the two tags of the command lines explored
TagPlain == <<"v", "0", ".", "2", "0", ".", "1">>
TagRc == <<"v", "0", ".", "2", "1", ".", "0", "r", "c", "1">>
Tags == {TagPlain, TagRc}

NoTag == <<>>
None == "none"

AbsentDir == [st |-> "absent", src |-> {}, bin |-> {}]
EmptyDir == [st |-> "empty", src |-> {}, bin |-> {}]
\* what an earlier source build left
BuiltDir == [st |-> "source", src |-> {}, bin |-> CoreExes]
\* what tar -zxf leaves
ReleaseDir == [st |-> "release", src |-> {}, bin |-> CoreExes \cup {GuiExe}]

IsDir(tag) == dirs[tag].st # "absent"

TagSeqs(S, n) == UNION {[1..k -> S] : k \in 0..n}

\* an external command that was started: its name, the tag it ran for, its exit
\* status and what it printed
Call(cmd, t, ret, out) == [cmd |-> cmd, tag |-> t, ret |-> ret, out |-> out]

\* how a function ended: by return of a status, or by an uncaught exception
\* (the interpreter then exits with status 1)
Ret(r) == [kind |-> "returned", code |-> r]
Raised == [kind |-> "raised", code |-> 1]
Running == [kind |-> "running", code |-> 0]

tag == extras[idx]

Init ==
    /\ args \in [download_binary : BOOLEAN, remove_dir : BOOLEAN,
                 functional_tests : BOOLEAN, depends : BOOLEAN,
                 host : {<<>>}, platform : {""}, config_flags : {<<>>}]
    /\ extras \in TagSeqs(Tags, MaxTags)
    /\ envHOST \in EnvHosts
    /\ dirs \in [Range(extras) -> {AbsentDir, EmptyDir, BuiltDir}]
    /\ target_dir \in BOOLEAN
    /\ (\E t \in Range(extras) : dirs[t].st # "absent") => target_dir
    /\ files = << >>
    /\ cwd = StartDir
    /\ dirStack = <<>>
    /\ pc = "main"
    /\ idx = 1
    /\ calls = <<>>
    /\ rets = <<>>
    /\ mainRet = Running
    /\ pre = [dirs |-> dirs, files |-> files, ncalls |-> 0]
    /\ bin_path = <<>>
    /\ tarball = <<>>
    /\ sha256Sums = <<>>
    /\ tarballUrl = <<>>
    /\ sha256SumsUrl = <<>>
    /\ tarballHash = None
    /\ host = <<>>
    /\ config_flags = <<>>
    /\ run = 1

\* ------------------------------------------------------------ how main ends

\* OpReturn without the 'if ret: return ret' of lines 180-181 and 189-190: the
\* loop goes on to the next tag whatever the operation returned
OpReturn_noEarlyReturn(r) ==
    /\ rets' = Append(rets, Ret(r))
    /\ mainRet' = mainRet
    /\ pc' = "main_loop"
    /\ cwd' = pushd_exit(cwd, dirStack, Len(dirStack) - 1)
    /\ dirStack' = SubSeq(dirStack, 1, 1)
    /\ idx' = idx + 1

\* the tag's operation returns r inside with pushd(args.target_dir): lines
\* 179-182 and 188-191.  inner: the with-blocks of build_release still open.
OpReturn(r) ==
    /\ rets' = Append(rets, Ret(r))
    /\ IF r # 0
       THEN /\ mainRet' = Ret(r)
            /\ pc' = "done"
            /\ cwd' = pushd_exit(cwd, dirStack, Len(dirStack))
            /\ dirStack' = <<>>
            /\ idx' = idx
       ELSE /\ mainRet' = mainRet
            /\ pc' = "main_loop"
            /\ cwd' = pushd_exit(cwd, dirStack, Len(dirStack) - 1)
            /\ dirStack' = SubSeq(dirStack, 1, 1)
            /\ idx' = idx + 1

\* an exception leaves the tag's operation: every open with-block restores its
\* directory, and main ends with the exception
OpRaise ==
    /\ rets' = Append(rets, Raised)
    /\ mainRet' = Raised
    /\ pc' = "done"
    /\ cwd' = pushd_exit(cwd, dirStack, Len(dirStack))
    /\ dirStack' = <<>>
    /\ idx' = idx

\* -------------------------------------------------------------------- main

\* lines 168-172
Main ==
    /\ pc = "main"
    /\ IF extras = <<>>
       THEN /\ mainRet' = Ret(0)
            /\ pc' = "done"
            /\ UNCHANGED target_dir
       ELSE /\ target_dir' = TRUE
            /\ pc' = "check_host"
            /\ UNCHANGED mainRet
    /\ UNCHANGED <<run, args, extras, envHOST, dirs, files, cwd, dirStack, idx, calls, rets,
                   pre, dlVars, brVars>>

\* lines 150-165, and main's lines 173-177 and 183-186
CheckHost ==
    /\ pc = "check_host"
    /\ \E rc \in ExitCodes, out \in GuessOutputs :
          /\ calls' = Append(calls, Call("./depends/config.guess", NoTag, rc, out))
          /\ IF rc # 0
             THEN \* check_output raises CalledProcessError
                  /\ mainRet' = Raised
                  /\ pc' = "done"
                  /\ UNCHANGED <<args, cwd, dirStack>>
             ELSE LET h == IF envHOST = "unset" THEN out ELSE envHOST
                      p == IF args.download_binary THEN PlatformOf(h) ELSE args.platform
                      unsure == args.download_binary /\ p = ""
                      flags == IF ~args.download_binary /\ args.functional_tests
                               THEN <<NoGuiFlags>> ELSE <<>>
                  IN  /\ args' = [args EXCEPT !.host = h, !.platform = p,
                                              !.config_flags = flags]
                      /\ IF unsure
                         THEN /\ mainRet' = Ret(1)
                              /\ pc' = "done"
                              /\ UNCHANGED <<cwd, dirStack>>
                         ELSE /\ pc' = "main_loop"
                              /\ dirStack' = Append(dirStack, cwd)
                              /\ cwd' = TargetDir
                              /\ UNCHANGED mainRet
    /\ UNCHANGED <<run, extras, envHOST, fsVars, idx, rets, pre, dlVars, brVars>>

\* the for loops of lines 178-182 and 187-191
MainLoop ==
    /\ pc = "main_loop"
    /\ IF idx > Len(extras)
       THEN /\ mainRet' = Ret(0)
            /\ pc' = "done"
            /\ cwd' = pushd_exit(cwd, dirStack, Len(dirStack))
            /\ dirStack' = <<>>
            /\ UNCHANGED pre
       ELSE /\ pc' = IF args.download_binary THEN "download_binary" ELSE "build_release"
            /\ pre' = [dirs |-> dirs, files |-> files, ncalls |-> Len(calls)]
            /\ UNCHANGED <<mainRet, cwd, dirStack>>
    /\ UNCHANGED <<run, args, extras, envHOST, fsVars, idx, calls, rets, dlVars, brVars>>


\* --------------------------------------------------------- download_binary

Unlink(f, name) == [n \in (DOMAIN f) \ {name} |-> f[n]]
WriteFile(f, name, content) == (name :> content) @@ f

\* lines 34-54: the cache test, the (re)creation of the tag directory and the
\* names and URLs
DownloadBinary ==
    /\ pc = "download_binary"
    /\ IF IsDir(tag) /\ ~args.remove_dir
       THEN /\ OpReturn(0)
            /\ UNCHANGED <<dirs, dlVars>>
       ELSE /\ dirs' = [dirs EXCEPT ![tag] = EmptyDir]
            /\ bin_path' = BinPath(tag)
            /\ tarball' = TarballName(tag, args.platform)
            /\ sha256Sums' = Sha256SumsName(tag)
            /\ tarballUrl' = TarballUrl(tag, args.platform)
            /\ sha256SumsUrl' = Sha256SumsUrl(tag)
            /\ pc' = "curl_probe"
            /\ UNCHANGED <<tarballHash, rets, mainRet, cwd, dirStack, idx>>
    /\ UNCHANGED <<run, args, extras, envHOST, target_dir, files, calls, pre, brVars>>

\* ProbeNotFound finding no 404 in any header
ProbeNotFound_never(header) == FALSE

\* line 57: re.search("404 Not Found", header)
ProbeNotFound(header) == header = "404 Not Found"

\* lines 56-59: curl -I and the search for '404 Not Found' in its output
CurlProbe ==
    /\ pc = "curl_probe"
    /\ \E header \in {"404 Not Found", "200 OK"} :
          /\ calls' = Append(calls, Call("curl -I", tag, 0, header))
          /\ IF ProbeNotFound(header)
             THEN OpReturn(1)
             ELSE /\ pc' = "curl_tarball"
                  /\ UNCHANGED <<rets, mainRet, cwd, dirStack, idx>>
    /\ UNCHANGED <<run, args, extras, envHOST, fsVars, pre, dlVars, brVars>>

\* lines 66-69, first command: curl -O tarballUrl
CurlTarball ==
    /\ pc = "curl_tarball"
    /\ \E ret \in ExitCodes :
          /\ calls' = Append(calls, Call("curl -O", tag, ret, ""))
          /\ IF ret # 0
             THEN /\ OpReturn(ret)
                  /\ UNCHANGED files
             ELSE /\ files' = WriteFile(files, tarball, TarballContent)
                  /\ pc' = "curl_sums"
                  /\ UNCHANGED <<rets, mainRet, cwd, dirStack, idx>>
    /\ UNCHANGED <<run, args, extras, envHOST, target_dir, dirs, pre, dlVars, brVars>>

\* lines 66-69, second command: curl -o sha256Sums sha256SumsUrl
CurlSums ==
    /\ pc = "curl_sums"
    /\ \E ret \in ExitCodes, lst \in TagSeqs(Lines, MaxLines) :
          /\ ret # 0 => lst = <<>>
          /\ calls' = Append(calls, Call("curl -o", tag, ret, lst))
          /\ IF ret # 0
             THEN /\ OpReturn(ret)
                  /\ UNCHANGED files
             ELSE /\ files' = WriteFile(files, sha256Sums, lst)
                  /\ pc' = "hash"
                  /\ UNCHANGED <<rets, mainRet, cwd, dirStack, idx>>
    /\ UNCHANGED <<run, args, extras, envHOST, target_dir, dirs, pre, dlVars, brVars>>

\* lines 71-76: open(tarball, "rb", encoding="utf-8") raises ValueError
\* ("binary mode doesn't take an encoding argument") before anything is read
OpenTarball(name) == "ValueError"

HashTarball ==
    /\ pc = "hash"
    /\ IF OpenTarball(tarball) = "ValueError"
       THEN /\ OpRaise
            /\ UNCHANGED tarballHash
       ELSE /\ tarballHash' = Sha256(files[tarball])
            /\ pc' = "verify"
            /\ UNCHANGED <<rets, mainRet, cwd, dirStack, idx>>
    /\ UNCHANGED <<run, args, extras, envHOST, fsVars, calls, pre, brVars,
                   bin_path, tarball, sha256Sums, tarballUrl, sha256SumsUrl>>

\* lines 77-88: the scan of the manifest's lines
Verify ==
    /\ pc = "verify"
    /\ LET verdict == VerifyChecksum(files[sha256Sums], tarballHash)
       IN  CASE verdict = "accept" ->
                   /\ pc' = "tar"
                   /\ UNCHANGED <<files, rets, mainRet, cwd, dirStack, idx>>
             [] verdict = "reject" ->
                   /\ files' = Unlink(files, tarball)
                   /\ OpReturn(1)
             [] OTHER ->
                   /\ OpRaise
                   /\ UNCHANGED files
    /\ UNCHANGED <<run, args, extras, envHOST, target_dir, dirs, calls, pre, dlVars, brVars>>

\* lines 90-93: tar -zxf tarball -C tag --strip-components=1
Tar ==
    /\ pc = "tar"
    /\ \E ret \in ExitCodes :
          /\ calls' = Append(calls, Call("tar -zxf", tag, ret, ""))
          /\ IF ret # 0
             THEN /\ OpReturn(ret)
                  /\ UNCHANGED dirs
             ELSE /\ dirs' = [dirs EXCEPT ![tag] = ReleaseDir]
                  /\ pc' = "unlink"
                  /\ UNCHANGED <<rets, mainRet, cwd, dirStack, idx>>
    /\ UNCHANGED <<run, args, extras, envHOST, target_dir, files, pre, dlVars, brVars>>

\* lines 95-97
UnlinkDownloads ==
    /\ pc = "unlink"
    /\ files' = Unlink(Unlink(files, tarball), sha256Sums)
    /\ OpReturn(0)
    /\ UNCHANGED <<run, args, extras, envHOST, target_dir, dirs, calls, pre, dlVars, brVars>>


\* ----------------------------------------------------------- build_release

\* lines 128-130: '--prefix={pwd}/depends/{host} ' + args.config_flags
ConfigFlags(pwd, h) == <<"--prefix=", pwd, "/depends/", h, " ">> \o args.config_flags

\* str.format of the bytes check_output returns
BytesRepr(out) == <<"b'">> \o out \o <<"'">>

\* TagListed taking any output, even none, for a known tag
TagListed_always(output) == TRUE

\* line 105: the test of git tag -l's output
TagListed(output) == output # ""

\* lines 100-107: the removal, and git tag -l when the directory is absent
BuildRelease ==
    /\ pc = "build_release"
    /\ LET removed == args.remove_dir /\ IsDir(tag)
           absent == removed \/ ~IsDir(tag)
       IN  /\ dirs' = IF removed THEN [dirs EXCEPT ![tag] = AbsentDir] ELSE dirs
           /\ IF absent
              THEN \E rc \in ExitCodes, output \in {"", "tag\n"} :
                      /\ calls' = Append(calls, Call("git tag -l", tag, rc, output))
                      /\ IF rc # 0
                         THEN \* check_output raises CalledProcessError
                              OpRaise
                         ELSE IF ~TagListed(output)
                         THEN OpReturn(1)
                         ELSE /\ pc' = "git_clone"
                              /\ UNCHANGED <<rets, mainRet, cwd, dirStack, idx>>
              ELSE /\ pc' = "git_clone"
                   /\ UNCHANGED <<calls, rets, mainRet, cwd, dirStack, idx>>
    /\ UNCHANGED <<run, args, extras, envHOST, target_dir, files, pre, dlVars, brVars>>

\* lines 108-113: git clone into the tag directory (git refuses a directory
\* that exists and is not empty), then with pushd(tag)
GitClone ==
    /\ pc = "git_clone"
    /\ \E ret \in ExitCodes :
          /\ calls' = Append(calls, Call("git clone", tag, ret, ""))
          /\ /\ dirs[tag].st \notin {"absent", "empty"} => ret # 0
             /\ IF ret # 0
                THEN /\ OpReturn(ret)
                     /\ UNCHANGED dirs
                ELSE /\ dirs' = [dirs EXCEPT ![tag] = [st |-> "source", src |-> {}, bin |-> {}]]
                     /\ dirStack' = Append(dirStack, cwd)
                     /\ cwd' = cwd \o <<tag>>
                     /\ pc' = "git_checkout"
                     /\ UNCHANGED <<rets, mainRet, idx>>
    /\ UNCHANGED <<run, args, extras, envHOST, target_dir, files, pre, dlVars, brVars>>

\* lines 114-119 (and 128-130 without --depends)
GitCheckout ==
    /\ pc = "git_checkout"
    /\ \E ret \in ExitCodes :
          /\ calls' = Append(calls, Call("git checkout", tag, ret, ""))
          /\ IF ret # 0
             THEN /\ OpReturn(ret)
                  /\ UNCHANGED brVars
             ELSE /\ host' = args.host
                  /\ IF args.depends
                     THEN /\ dirStack' = Append(dirStack, cwd)
                          /\ cwd' = cwd \o <<"depends">>
                          /\ pc' = "depends_make"
                          /\ UNCHANGED config_flags
                     ELSE /\ config_flags' = ConfigFlags(cwd, args.host)
                          /\ pc' = "autogen"
                          /\ UNCHANGED <<cwd, dirStack>>
                  /\ UNCHANGED <<rets, mainRet, idx>>
    /\ UNCHANGED <<run, args, extras, envHOST, fsVars, pre, dlVars>>

\* lines 120-125: make [NO_QT=1] in depends
DependsMake ==
    /\ pc = "depends_make"
    /\ \E ret \in ExitCodes :
          /\ calls' = Append(calls, Call("make (depends)", tag, ret, ""))
          /\ IF ret # 0
             THEN OpReturn(ret)
             ELSE /\ pc' = "config_guess"
                  /\ UNCHANGED <<rets, mainRet, cwd, dirStack, idx>>
    /\ UNCHANGED <<run, args, extras, envHOST, fsVars, pre, dlVars, brVars>>

\* lines 126-130: ./config.guess runs whether or not HOST is set; the inner
\* with-block ends
ConfigGuess ==
    /\ pc = "config_guess"
    /\ \E rc \in ExitCodes, out \in GuessOutputs :
          /\ calls' = Append(calls, Call("./config.guess", tag, rc, out))
          /\ IF rc # 0
             THEN \* check_output raises CalledProcessError
                  /\ OpRaise
                  /\ UNCHANGED brVars
             ELSE LET h == IF envHOST = "unset" THEN BytesRepr(out) ELSE envHOST
                      pwd == pushd_exit(cwd, dirStack, 1)
                  IN  /\ host' = h
                      /\ cwd' = pwd
                      /\ dirStack' = SubSeq(dirStack, 1, Len(dirStack) - 1)
                      /\ config_flags' = ConfigFlags(pwd, h)
                      /\ pc' = "autogen"
                      /\ UNCHANGED <<rets, mainRet, idx>>
    /\ UNCHANGED <<run, args, extras, envHOST, fsVars, pre, dlVars>>

\* lines 131-139, './autogen.sh'
Autogen ==
    /\ pc = "autogen"
    /\ \E ret \in ExitCodes :
          /\ calls' = Append(calls, Call("./autogen.sh", tag, ret, ""))
          /\ IF ret # 0
             THEN OpReturn(ret)
             ELSE /\ pc' = "configure"
                  /\ UNCHANGED <<rets, mainRet, cwd, dirStack, idx>>
    /\ UNCHANGED <<run, args, extras, envHOST, fsVars, pre, dlVars, brVars>>

\* lines 131-139, './configure {config_flags}'
Configure ==
    /\ pc = "configure"
    /\ \E ret \in ExitCodes :
          /\ calls' = Append(calls, Call("./configure", tag, ret, ""))
          /\ IF ret # 0
             THEN OpReturn(ret)
             ELSE /\ pc' = "make"
                  /\ UNCHANGED <<rets, mainRet, cwd, dirStack, idx>>
    /\ UNCHANGED <<run, args, extras, envHOST, fsVars, pre, dlVars, brVars>>

\* what a successful make leaves in src/: the GUI executable unless the tree
\* was configured --without-gui
MakeProduces(flags) ==
    CoreExes \cup (IF NoGuiFlags \in Range(flags) THEN {} ELSE {GuiExe})

\* lines 131-139, 'make'
Make ==
    /\ pc = "make"
    /\ \E ret \in ExitCodes :
          /\ calls' = Append(calls, Call("make", tag, ret, ""))
          /\ IF ret # 0
             THEN /\ OpReturn(ret)
                  /\ UNCHANGED dirs
             ELSE /\ dirs' = [dirs EXCEPT ![tag].src = MakeProduces(args.config_flags)]
                  /\ pc' = "move"
                  /\ UNCHANGED <<rets, mainRet, cwd, dirStack, idx>>
    /\ UNCHANGED <<run, args, extras, envHOST, target_dir, files, pre, dlVars, brVars>>

\* lines 142-148: the renames into bin/; a rename of a file that is not there
\* raises FileNotFoundError after the earlier renames were done
MoveBinaries ==
    /\ pc = "move"
    /\ LET d == dirs[tag]
           coreThere == CoreExes \subseteq d.src
           moved == IF coreThere THEN CoreExes ELSE {}
           wantGui == coreThere /\ args.functional_tests
           guiThere == GuiExe \in d.src
           all == moved \cup (IF wantGui /\ guiThere THEN {GuiExe} ELSE {})
       IN  /\ dirs' = [dirs EXCEPT ![tag].src = d.src \ all, ![tag].bin = d.bin \cup all]
           /\ IF ~coreThere \/ (wantGui /\ ~guiThere)
              THEN OpRaise
              ELSE OpReturn(0)
    /\ UNCHANGED <<run, args, extras, envHOST, target_dir, files, calls, pre, dlVars, brVars>>

\* ---------------------------------------------------------- specifications

\* one run of the script; download_binary never gets past line 72
Next ==
    \/ Main
    \/ CheckHost
    \/ MainLoop
    \/ DownloadBinary
    \/ CurlProbe
    \/ CurlTarball
    \/ CurlSums
    \/ HashTarball
    \/ BuildRelease
    \/ GitClone
    \/ GitCheckout
    \/ DependsMake
    \/ ConfigGuess
    \/ Autogen
    \/ Configure
    \/ Make
    \/ MoveBinaries

Spec == Init /\ [][Next]_vars


\* The checksum step of download_binary on its own: the states lines 77-97
\* start from once both downloads are stored and tarballHash holds the
\* tarball's digest, for every manifest of up to MaxLines lines.
InitVerify ==
    /\ args \in [download_binary : {TRUE}, remove_dir : BOOLEAN,
                 functional_tests : {FALSE}, depends : {FALSE},
                 host : {HostLinux, HostDarwin},
                 platform : {"x86_64-linux-gnu", "osx64"}, config_flags : {<<>>}]
    /\ args.platform = PlatformOf(args.host)
    /\ extras \in TagSeqs(Tags, MaxTags) \ {<<>>}
    /\ envHOST = args.host
    /\ idx = 1
    /\ \E others \in [Range(extras) -> {AbsentDir, EmptyDir}] :
          dirs = [others EXCEPT ![extras[1]] = EmptyDir]
    /\ target_dir = TRUE
    /\ \E lst \in TagSeqs(Lines, MaxLines) :
          /\ files = WriteFile(WriteFile(<< >>, TarballName(extras[1], args.platform),
                                         TarballContent),
                               Sha256SumsName(extras[1]), lst)
          /\ calls = <<Call("./depends/config.guess", NoTag, 0, args.host),
                       Call("curl -I", extras[1], 0, "200 OK"),
                       Call("curl -O", extras[1], 0, ""),
                       Call("curl -o", extras[1], 0, lst)>>
    /\ cwd = TargetDir
    /\ dirStack = <<StartDir>>
    /\ pc = "verify"
    /\ rets = <<>>
    /\ mainRet = Running
    /\ \E d0 \in [Range(extras) -> {AbsentDir, EmptyDir}] :
          pre = [dirs |-> d0, files |-> << >>, ncalls |-> 1]
    /\ (args.remove_dir \/ pre.dirs[extras[1]] = AbsentDir)
    /\ \A t \in Range(extras) \ {extras[1]} : pre.dirs[t] = dirs[t]
    /\ bin_path = BinPath(extras[1])
    /\ tarball = TarballName(extras[1], args.platform)
    /\ sha256Sums = Sha256SumsName(extras[1])
    /\ tarballUrl = TarballUrl(extras[1], args.platform)
    /\ sha256SumsUrl = Sha256SumsUrl(extras[1])
    /\ tarballHash = Sha256(TarballContent)
    /\ host = <<>>
    /\ config_flags = <<>>
    /\ run = 1

NextVerify ==
    \/ Verify
    \/ Tar
    \/ UnlinkDownloads
    \/ MainLoop
    \/ DownloadBinary
    \/ CurlProbe
    \/ CurlTarball
    \/ CurlSums
    \/ HashTarball

SpecVerify == InitVerify /\ [][NextVerify]_vars

\* The path construction of download_binary (lines 41-51) for every tag 'v...'
\* of up to MaxTagLen further characters.
PathAlphabet == {"v", "r", "c", "0", "1", "."}
TagStrings == {<<"v">> \o b : b \in TagSeqs(PathAlphabet, MaxTagLen)}

InitPath ==
    /\ args \in [download_binary : {TRUE}, remove_dir : {FALSE},
                 functional_tests : {FALSE}, depends : {FALSE},
                 host : {HostLinux}, platform : {"x86_64-linux-gnu"},
                 config_flags : {<<>>}]
    /\ \E t \in TagStrings : extras = <<t>>
    /\ envHOST = "unset"
    /\ idx = 1
    /\ dirs = [t \in Range(extras) |-> AbsentDir]
    /\ target_dir = TRUE
    /\ files = << >>
    /\ cwd = TargetDir
    /\ dirStack = <<StartDir>>
    /\ pc = "download_binary"
    /\ calls = <<Call("./depends/config.guess", NoTag, 0, args.host \o <<"\n">>)>>
    /\ rets = <<>>
    /\ mainRet = Running
    /\ pre = [dirs |-> dirs, files |-> files, ncalls |-> 1]
    /\ bin_path = <<>>
    /\ tarball = <<>>
    /\ sha256Sums = <<>>
    /\ tarballUrl = <<>>
    /\ sha256SumsUrl = <<>>
    /\ tarballHash = None
    /\ host = <<>>
    /\ config_flags = <<>>
    /\ run = 1

NextPath == DownloadBinary

SpecPath == InitPath /\ [][NextPath]_vars


\* Runs of the script one after another in binary-download mode without
\* --remove-dir, over a target directory that starts empty.
InitRuns ==
    /\ args \in [download_binary : {TRUE}, remove_dir : {FALSE},
                 functional_tests : {FALSE}, depends : {FALSE},
                 host : {<<>>}, platform : {""}, config_flags : {<<>>}]
    /\ extras \in TagSeqs(Tags, MaxTags)
    /\ envHOST \in EnvHosts
    /\ dirs = [t \in Tags |-> AbsentDir]
    /\ target_dir \in BOOLEAN
    /\ files = << >>
    /\ cwd = StartDir
    /\ dirStack = <<>>
    /\ pc = "main"
    /\ idx = 1
    /\ calls = <<>>
    /\ rets = <<>>
    /\ mainRet = Running
    /\ pre = [dirs |-> dirs, files |-> files, ncalls |-> 0]
    /\ bin_path = <<>>
    /\ tarball = <<>>
    /\ sha256Sums = <<>>
    /\ tarballUrl = <<>>
    /\ sha256SumsUrl = <<>>
    /\ tarballHash = None
    /\ host = <<>>
    /\ config_flags = <<>>
    /\ run = 1

\* the script is started again, with the same options and any tags: the
\* directories and files stay, everything else starts afresh
NewRun ==
    /\ pc = "done"
    /\ run < MaxRuns
    /\ run' = run + 1
    /\ extras' \in TagSeqs(Tags, MaxTags)
    /\ args' = [args EXCEPT !.host = <<>>, !.platform = "", !.config_flags = <<>>]
    /\ cwd' = StartDir
    /\ dirStack' = <<>>
    /\ pc' = "main"
    /\ idx' = 1
    /\ calls' = <<>>
    /\ rets' = <<>>
    /\ mainRet' = Running
    /\ pre' = [dirs |-> dirs, files |-> files, ncalls |-> 0]
    /\ bin_path' = <<>>
    /\ tarball' = <<>>
    /\ sha256Sums' = <<>>
    /\ tarballUrl' = <<>>
    /\ sha256SumsUrl' = <<>>
    /\ UNCHANGED <<envHOST, fsVars, tarballHash, brVars>>

NextRuns ==
    \/ Main
    \/ CheckHost
    \/ MainLoop
    \/ DownloadBinary
    \/ CurlProbe
    \/ CurlTarball
    \/ CurlSums
    \/ HashTarball
    \/ NewRun

SpecRuns == InitRuns /\ [][NextRuns]_vars

\* ------------------------------------------------------------------ claims

\* a tag's operation (download_binary or build_release) is being executed
InOp == pc \notin {"main", "check_host", "main_loop", "done"}
\* main dispatched at least one tag
OpBegun == InOp \/ Len(rets) > 0
\* the tag of the operation dispatched last, and whether it has ended
LastTag == extras[IF InOp THEN idx ELSE Len(rets)]
OpFinished == ~InOp /\ Len(rets) > 0
LastRet == rets[Len(rets)]
\* the positions in calls of the commands the last operation started
OpCalls == (pre.ncalls + 1)..Len(calls)

DigestListed(lst) == \E i \in 1..Len(lst) : ReSearch(Sha256(TarballContent), lst[i])

\* C1: if the tag directory exists when download_binary or build_release
\* starts and remove_dir is not set, the operation starts no external command,
\* leaves the directories and files as they were and returns 0.
C1_CacheHitLaw ==
    (OpBegun /\ pre.dirs[LastTag].st # "absent" /\ ~args.remove_dir) =>
        /\ Len(calls) = pre.ncalls
        /\ dirs = pre.dirs
        /\ files = pre.files
        /\ (pc \notin {"download_binary", "build_release"}) =>
               (OpFinished /\ LastRet = Ret(0))

\* C2: when download_binary ends after storing a manifest none of whose lines
\* holds the tarball's digest, it has returned a non-zero status, tar was not
\* started and the tarball file is gone.
C2_MismatchFailsAndRemovesTarball ==
    \A k \in OpCalls :
        (/\ OpFinished
         /\ calls[k].cmd = "curl -o"
         /\ calls[k].ret = 0
         /\ ~DigestListed(calls[k].out)) =>
            /\ LastRet.kind = "returned"
            /\ LastRet.code # 0
            /\ \A j \in OpCalls : calls[j].cmd # "tar -zxf"
            /\ tarball \notin DOMAIN files

\* C3: tags are processed in command-line order; once a tag's operation
\* returned a non-zero status r, main has returned r, and no operation and no
\* command was started for a later tag; main returns 0 only after the operation
\* of every tag returned 0.
C3_FirstFailureStops ==
    /\ \A k \in 1..Len(calls) :
           calls[k].tag \in {NoTag} \cup {extras[j] : j \in 1..Len(extras) \cap 1..(Len(rets) + 1)}
    /\ \A i \in 1..Len(rets) :
           (rets[i].kind = "returned" /\ rets[i].code # 0) =>
               /\ i = Len(rets)
               /\ pc = "done"
               /\ mainRet = rets[i]
               /\ \A k \in 1..Len(calls) :
                      calls[k].tag \in {NoTag} \cup {extras[j] : j \in 1..i}
    /\ (pc = "done" /\ mainRet = Ret(0) /\ extras # <<>>) =>
           /\ Len(rets) = Len(extras)
           /\ \A i \in 1..Len(rets) : rets[i] = Ret(0)

\* C3's case: the first of two different tags failed with status 2
C3_Witness ==
    /\ pc = "done"
    /\ Len(extras) = 2
    /\ extras[1] # extras[2]
    /\ rets = <<Ret(2)>>
    /\ mainRet = Ret(2)

\* C4: when download_binary ends for a tag whose directory was absent, the
\* probe not having reported 404, every command it started having returned 0
\* and the manifest listing the tarball's digest, it has returned 0, the tag
\* directory holds the extracted release and neither download is left behind.
C4_FetchSucceeds ==
    (/\ OpFinished
     /\ args.download_binary
     /\ pre.dirs[LastTag].st = "absent"
     /\ \A k \in OpCalls :
           /\ calls[k].ret = 0
           /\ calls[k].cmd = "curl -I" => calls[k].out # "404 Not Found"
           /\ calls[k].cmd = "curl -o" => DigestListed(calls[k].out)) =>
        /\ LastRet = Ret(0)
        /\ dirs[LastTag] = ReleaseDir
        /\ tarball \notin DOMAIN files
        /\ sha256Sums \notin DOMAIN files

\* C5: the checksum step lets the tarball through to extraction whenever some
\* line of the manifest holds its digest.
C5_ListedDigestAccepted ==
    \A k \in 1..Len(calls) :
        (/\ calls[k].cmd = "curl -o"
         /\ calls[k].ret = 0
         /\ calls[k].tag = extras[1]
         /\ DigestListed(calls[k].out)
         /\ (pc # "verify" \/ Len(rets) > 0)) =>
            \/ (pc = "tar" /\ idx = 1)
            \/ \E j \in 1..Len(calls) : calls[j].cmd = "tar -zxf" /\ calls[j].tag = extras[1]


\* the two patterns of check_host, spelled out: 'x86_64-' followed somewhere
\* by '-linux', and the prefix 'x86_64-apple-darwin'
MatchesLinuxPattern(h) ==
    /\ Len(h) >= 7
    /\ SubSeq(h, 1, 7) = X86
    /\ \E i \in 8..(Len(h) - 5) : SubSeq(h, i, i + 5) = <<"-", "l", "i", "n", "u", "x">>
MatchesDarwinPattern(h) ==
    /\ Len(h) >= 19
    /\ SubSeq(h, 1, 19) = X86 \o <<"a", "p", "p", "l", "e", "-", "d", "a", "r", "w", "i", "n">>

\* C6: in binary-download mode, once check_host has the host triple and it
\* matches neither pattern, main has returned 1 with no curl started, no tag
\* operation begun and every directory and file as it was.
C6_UnknownHostStops ==
    (/\ args.download_binary
     /\ args.host # <<>>
     /\ ~MatchesLinuxPattern(args.host)
     /\ ~MatchesDarwinPattern(args.host)) =>
        /\ pc = "done"
        /\ mainRet = Ret(1)
        /\ rets = <<>>
        /\ \A k \in 1..Len(calls) : calls[k].cmd = "./depends/config.guess"
        /\ dirs = pre.dirs
        /\ files = pre.files

\* C6's case: a mingw host in binary-download mode
C6_Witness ==
    /\ pc = "done"
    /\ args.download_binary
    /\ args.host = HostMingw
    /\ mainRet = Ret(1)

\* C7: when git tag -l ran for a tag (its directory being absent, after the
\* removal if any) and printed nothing, build_release has returned 1, git clone
\* was not started and the tag directory does not exist.
C7_UnknownTagStops ==
    \A k \in 1..Len(calls) :
        (/\ calls[k].cmd = "git tag -l"
         /\ calls[k].ret = 0
         /\ calls[k].out = "") =>
            /\ k = Len(calls)
            /\ OpFinished
            /\ LastTag = calls[k].tag
            /\ LastRet = Ret(1)
            /\ dirs[calls[k].tag] = AbsentDir

\* C7's case: the directory was there, was removed, and the tag is unknown
C7_Witness ==
    /\ pc = "done"
    /\ calls # <<>>
    /\ calls[Len(calls)].cmd = "git tag -l"
    /\ calls[Len(calls)].ret = 0
    /\ calls[Len(calls)].out = ""
    /\ args.remove_dir
    /\ pre.dirs[LastTag] = BuiltDir
    /\ LastRet = Ret(1)

\* C8: every tag's operation starts in the target directory, and when main has
\* ended, by return or by exception, the working directory is the one main
\* was called in.
C8_WorkingDirectoryRestored ==
    /\ pc \in {"download_binary", "build_release"} => cwd = TargetDir
    /\ pc = "done" => cwd = StartDir

\* C8's case: make failed inside the depends directory of a tag directory
C8_Witness ==
    /\ pc = "done"
    /\ calls # <<>>
    /\ calls[Len(calls)].cmd = "make (depends)"
    /\ calls[Len(calls)].ret # 0
    /\ cwd = StartDir

\* C9: once a command of build_release exited with a non-zero status r, no
\* later command was started, nothing was moved into bin/ and build_release
\* has returned r.
C9_FailedCommandPropagates ==
    \A k \in 1..Len(calls) :
        (/\ ~args.download_binary
         /\ calls[k].tag # NoTag
         /\ calls[k].ret # 0) =>
            /\ k = Len(calls)
            /\ OpFinished
            /\ dirs[calls[k].tag].bin = pre.dirs[calls[k].tag].bin
            /\ LastRet = Ret(calls[k].ret)

\* C10: for a tag v<version>rc<N> the path in both URLs is
\* bin/bitcoin-core-<version>/test.rc<N>; for any other tag v<version> it is
\* bin/bitcoin-core-<version>, with no test. segment.
C10_RcPath ==
    (pc # "download_binary") =>
        LET t == extras[1]
            rcAt(j) == /\ t[j] = "r"
                       /\ t[j + 1] = "c"
                       /\ \A k \in (j + 2)..Len(t) : t[k] \in Digits
            base == <<"https://bitcoincore.org/">>
        IN  /\ tarballUrl = base \o bin_path \o <<"/">> \o tarball
            /\ sha256SumsUrl = base \o bin_path \o <<"/SHA256SUMS.asc">>
            /\ \A j \in 2..(Len(t) - 2) :
                  rcAt(j) => bin_path = <<"bin/bitcoin-core-">> \o SubSeq(t, 2, j - 1)
                                          \o <<"/test.">> \o SubSeq(t, j, Len(t))
            /\ (~\E j \in 2..(Len(t) - 2) : rcAt(j)) =>
                  /\ bin_path = <<"bin/bitcoin-core-">> \o SubSeq(t, 2, Len(t))
                  /\ "/test." \notin Range(tarballUrl)
                  /\ "/test." \notin Range(sha256SumsUrl)

\* C10's case: the path of a release candidate with a two-digit number
C10_Witness ==
    /\ pc = "curl_probe"
    /\ extras = << <<"v", "r", "c", "1", "0">> >>
    /\ bin_path = <<"bin/bitcoin-core-", "/test.", "r", "c", "1", "0">>


\* C11: in runs of binary-download mode without --remove-dir over a target
\* directory that started empty, download_binary returns 0 by the 'Using
\* cached' path (no command started) only for a tag directory that a
\* successful tar extraction populated.
C11_CacheHitOnlyAfterExtraction ==
    (/\ OpFinished
     /\ args.download_binary
     /\ ~args.remove_dir
     /\ LastRet = Ret(0)
     /\ Len(calls) = pre.ncalls) =>
        dirs[LastTag].st = "release"


\* C12: a download or an extraction is started only after the probe of the
\* same tag answered without '404 Not Found'; once a probe reported '404 Not
\* Found', download_binary has returned 1 and no further command was started.
C12_ProbeBeforeDownload ==
    /\ \A k \in 1..Len(calls) :
           calls[k].cmd \in {"curl -O", "curl -o", "tar -zxf"} =>
               \E j \in 1..(k - 1) :
                   /\ calls[j].cmd = "curl -I"
                   /\ calls[j].tag = calls[k].tag
                   /\ calls[j].out # "404 Not Found"
    /\ \A k \in 1..Len(calls) :
           (calls[k].cmd = "curl -I" /\ calls[k].out = "404 Not Found") =>
               /\ k = Len(calls)
               /\ OpFinished
               /\ LastTag = calls[k].tag
               /\ LastRet = Ret(1)
               /\ mainRet = Ret(1)

\* C12's case: the probe of a tag answered 404
C12_Witness ==
    /\ pc = "done"
    /\ calls # <<>>
    /\ calls[Len(calls)].cmd = "curl -I"
    /\ calls[Len(calls)].out = "404 Not Found"
    /\ LastRet = Ret(1)


\* C13: when build_release has ended after make, every command it started
\* having returned 0 (git tag -l listing the tag), it has returned 0, bitcoind,
\* bitcoin-cli and bitcoin-tx are in bin/ and no longer in src/, and bitcoin-qt
\* is in bin/ only if the build was configured with the GUI.
C13_BuildMovesExecutables ==
    (/\ ~args.download_binary
     /\ OpFinished
     /\ \E k \in OpCalls : calls[k].cmd = "make"
     /\ \A k \in OpCalls :
           /\ calls[k].ret = 0
           /\ calls[k].cmd = "git tag -l" => calls[k].out # "") =>
        /\ LastRet = Ret(0)
        /\ CoreExes \subseteq dirs[LastTag].bin
        /\ CoreExes \cap dirs[LastTag].src = {}
        /\ GuiExe \in dirs[LastTag].bin => ~args.functional_tests


\* C14: once check_host has the host triple in binary-download mode, the
\* platform is the target of the first pattern, in the listed order, that the
\* triple matches ('' when it matches none).
C14_FirstMatchWins ==
    (args.download_binary /\ args.host # <<>>) =>
        args.platform = IF MatchesLinuxPattern(args.host) THEN "x86_64-linux-gnu"
                        ELSE IF MatchesDarwinPattern(args.host) THEN "osx64"
                        ELSE ""

====
